---- MODULE Spec2Model ----
(***************************************************************************)
(* Model of wsecho.go: the websocket echo server (Serve, Server.ServeHTTP) *)
(* and the latency probe client (Ping).                                    *)
(*                                                                         *)
(* A process runs either Serve or Ping; `mode' says which.  The two share  *)
(* no state.  The websocket connection (gorilla/websocket) is modelled by  *)
(* what the calls the program makes on it do: ReadMessage handles control  *)
(* frames itself by calling the installed handlers and returns only data   *)
(* frames or an error; WriteMessage and Close may fail.  ReadMessage and   *)
(* WriteMessage block: the program sets no deadline on either, so that a   *)
(* call under way is a position of its own, left when the peer or the      *)
(* transport lets it return.                                               *)
(***************************************************************************)
EXTENDS Integers, Sequences, FiniteSets, TLC

(* ---------------------------------------------------------------------- *)
(* Bounds of the model.                                                    *)
(* ---------------------------------------------------------------------- *)

\* Frames the peers of one process deliver in total during one run.
MaxFrames == 2

\* Largest iteration count n given to Ping.
MaxN == 2

\* Largest payload size given to Ping.
MaxSize == 2

\* Largest round-trip time measured by Ping, in ticks of the clock.
MaxElapsed == 2

(* ---------------------------------------------------------------------- *)
(* Program constants.                                                      *)
(* ---------------------------------------------------------------------- *)

\* context.WithTimeout(context.Background(), 5*time.Second) in Serve.
ShutdownTimeout == 5

(* ---------------------------------------------------------------------- *)
(* Frames.                                                                 *)
(* ---------------------------------------------------------------------- *)

\* The requests the server's handler is called for, numbered in the order
\* of their arrival.
Conns == {1, 2}

DataKinds == {"text", "binary"}

\* The frames a peer sends: two data frames of different kind and payload,
\* a ping, a pong, and a close frame whose payload is the status code 1000
\* in network byte order (3 * 256 + 232).
PeerFrames ==
    { [kind |-> "text",   data |-> <<104, 105>>],
      [kind |-> "binary", data |-> <<7>>],
      [kind |-> "ping",   data |-> <<112>>],
      [kind |-> "pong",   data |-> <<113>>],
      [kind |-> "close",  data |-> <<3, 232>>] }

\* The value of the locals mt, message before a frame has been read.
NoFrame == [kind |-> "none", data |-> <<>>]

\* Nothing was done on a connection after its token was invalidated.
NoLate == [r |-> 0, w |-> 0]

VARIABLES
    mode,       \* "server": the process runs Serve; "client": it runs Ping
    \* ---- Serve
    srv,        \* "listening", "stopping" (Shutdown running), "stopped"
    shutErr,    \* Shutdown returned an error (logged)
    \* ---- Server.ServeHTTP, one per connection
    pc,         \* position of the handler
    ctxDone,    \* ctx.Done() is closed (the lifetime token is invalidated)
    held,       \* mt, message: the frame read and not yet echoed
    rcvd,       \* frames ReadMessage has processed, in order
    wrote,      \* WriteMessage calls made on the connection, in order
    closes,     \* number of conn.Close() calls
    closeErr,   \* "none", or what Close returned: "nil", "err" (logged)
    exit,       \* the path the handler left the loop by
    late,       \* after the token was invalidated: r, the data frames
                \* ReadMessage returned; w, the echo writes made
    \* ---- Ping
    n, size,    \* arguments of Ping
    cpc,        \* position of Ping
    i,          \* loop counter
    cctxDone,   \* ctx.Done() is closed
    elapseds,   \* the samples
    crcvd,      \* frames ReadMessage has processed
    cwrote,     \* WriteMessage calls
    ccloses,    \* number of conn.Close() calls
    ccloseErr,  \* what Close returned
    cexit,      \* the path Ping left the loop by
    result,     \* "none" while running, then "nil" or "err" ("panic": Ping
                \* panicked)
    summary,    \* the average lines logged, in order
    clate       \* after the token was invalidated: r, the replies
                \* ReadMessage returned; w, the probe frames sent

srvVars == <<srv, shutErr>>
connVars == <<pc, ctxDone, held, rcvd, wrote, closes, closeErr, exit, late>>
cliVars == <<n, size, cpc, i, cctxDone, elapseds, crcvd, cwrote, ccloses,
             ccloseErr, cexit, result, summary, clate>>
vars == <<mode, srvVars, connVars, cliVars>>

(* ---------------------------------------------------------------------- *)
(* The connection: what ReadMessage and WriteMessage do.                   *)
(* ---------------------------------------------------------------------- *)

\* One WriteMessage call: the frame given and whether the transport took it.
WriteCall(f, ok) == [kind |-> f.kind, data |-> f.data, ok |-> ok]

\* What ReadMessage does after it processed frame f, handlerOk telling
\* whether the handler it called for a control frame returned nil:
\* a data frame is returned to the caller; a close frame always ends the
\* read with a CloseError; a handler's error ends the read with that
\* error; otherwise ReadMessage goes on to the next frame.
ReadOutcome(f, handlerOk) ==
    IF f.kind \in DataKinds THEN "return"
    ELSE IF f.kind = "close" THEN "error"
    ELSE IF handlerOk THEN "continue"
    ELSE "error"

\* Total number of frames delivered to the server's connections.
RECURSIVE SumLen(_, _)
SumLen(f, S) ==
    IF S = {} THEN 0
    ELSE LET c == CHOOSE x \in S : TRUE
         IN Len(f[c]) + SumLen(f, S \ {c})

(* ---------------------------------------------------------------------- *)
(* Initial states.                                                         *)
(* ---------------------------------------------------------------------- *)

ServerIdle ==
    /\ srv = "listening" /\ shutErr = FALSE
    /\ pc = [c \in Conns |-> "idle"]
    /\ ctxDone = [c \in Conns |-> FALSE]
    /\ held = [c \in Conns |-> NoFrame]
    /\ rcvd = [c \in Conns |-> <<>>]
    /\ wrote = [c \in Conns |-> <<>>]
    /\ closes = [c \in Conns |-> 0]
    /\ closeErr = [c \in Conns |-> "none"]
    /\ exit = [c \in Conns |-> "none"]
    /\ late = [c \in Conns |-> NoLate]

ClientIdle ==
    /\ cpc = "dial" /\ i = 0 /\ cctxDone = FALSE
    /\ elapseds = <<>> /\ crcvd = <<>> /\ cwrote = <<>>
    /\ ccloses = 0 /\ ccloseErr = "none" /\ cexit = "none"
    /\ result = "none" /\ summary = <<>> /\ clate = NoLate

\* The process runs Serve (and Ping is never called), or it runs Ping with
\* some count n and payload size.
Init ==
    /\ ServerIdle
    /\ ClientIdle
    /\ \/ mode = "server" /\ n = 0 /\ size = 0
       \/ mode = "client" /\ n \in 0..MaxN /\ size \in 0..MaxSize

(* ---------------------------------------------------------------------- *)
(* Serve.                                                                  *)
(* ---------------------------------------------------------------------- *)

\* <-ctx.Done() in Serve's goroutine: srv.Shutdown is called with a
\* deadline of ShutdownTimeout; the listener is closed, ListenAndServe
\* returns http.ErrServerClosed and Serve returns nil.  Shutdown neither
\* closes nor waits for hijacked (websocket) connections.
ShutdownBegin ==
    /\ mode = "server" /\ srv = "listening"
    /\ srv' = "stopping"
    /\ UNCHANGED <<mode, shutErr, connVars, cliVars>>

\* Shutdown returns after t ticks: nil when the tracked connections became
\* idle before the deadline, the context's error when the deadline of
\* ShutdownTimeout passed first (logged only).
ShutdownReturn(t) ==
    /\ mode = "server" /\ srv = "stopping"
    /\ t \in 0..ShutdownTimeout
    /\ srv' = "stopped" /\ shutErr' = (t = ShutdownTimeout)
    /\ UNCHANGED <<mode, connVars, cliVars>>

(* ---------------------------------------------------------------------- *)
(* Server.ServeHTTP.                                                       *)
(* ---------------------------------------------------------------------- *)

\* Mutant: the pong is written without the ping's payload.
PingHandlerEmpty(appData) == [kind |-> "pong", data |-> <<>>]

\* Mutant: the handler answers a ping with a ping.
PingHandlerPing(appData) == [kind |-> "ping", data |-> appData]

\* The frame the ping handler writes: a pong carrying appData.
PingHandler(appData) == [kind |-> "pong", data |-> appData]

\* The token after the close handler ran: cancel() invalidates it.
CloseHandler(done) == TRUE

\* Mutant: the echo is always written as a binary message.
EchoFrameBinary(mt, message) == [kind |-> "binary", data |-> message]

\* Mutant: the echo is written without the payload.
EchoFrameEmpty(mt, message) == [kind |-> mt, data |-> <<>>]

\* The frame the echo loop writes for the frame (mt, message) it read.
EchoFrame(mt, message) == [kind |-> mt, data |-> message]

\* Mutant: the loop does not look at ctx.
LoopCheckNever(done) == "read"

\* The select at the head of the loop: return when ctx is done, else read.
LoopCheck(done) == IF done THEN "defer" ELSE "read"

\* Mutant: the break is missing, a failed read falls through to the write.
AfterReadErrorFallsThrough == "write"

\* Where the break after a failed read leads: to the end of ServeHTTP, where
\* the deferred functions run.
AfterReadError == "defer"

\* Where the break after a failed write leads: to the end of ServeHTTP.
AfterWriteError == "defer"

\* Mutant: the deferred Close is missing.
DeferredCloseMissing(k) == k

\* Mutant: Close is called in the function and again when deferred.
DeferredCloseTwice(k) == k + 2

\* The number of Close calls made once the deferred function has run.
DeferredClose(k) == k + 1

\* Mutant: the return after the failed upgrade is missing.
UpgradeFailedNoReturn == "check"

\* Where a failed upgrade leads: the handler logs and returns; no
\* connection was made, so nothing but cancel was deferred.
UpgradeFailed == "failed"

\* Mutant: the loop goes on after conn.Close().
ReturnedStillReading == "read"

\* ServeHTTP, or Ping, has returned after its deferred functions ran.
Returned == "done"

\* Mutant: cancel is shared by all the connections.
CancelShared(c, tokens) == [d \in Conns |-> TRUE]

\* The cancel() the close handler of connection c calls: it is the cancel
\* of the ctx made for this request, and invalidates the token of c alone.
CancelFor(c, tokens) == [tokens EXCEPT ![c] = CloseHandler(@)]

\* The upgrade: on failure the handler logs and returns (the deferred
\* cancel runs, nothing else was deferred); on success the deferred Close is
\* registered, the three handlers are installed and the loop is entered.
\* ServeHTTP does not look at the state of the server: the upgrade of a
\* request accepted before Shutdown was called may return after it.
Upgrade(c, ok) ==
    /\ mode = "server" /\ pc[c] = "idle"
    /\ \A d \in Conns : d < c => pc[d] # "idle"
    /\ IF ok
       THEN /\ pc' = [pc EXCEPT ![c] = "check"]
            /\ UNCHANGED <<ctxDone, exit>>
       ELSE /\ pc' = [pc EXCEPT ![c] = UpgradeFailed]
            /\ ctxDone' = [ctxDone EXCEPT ![c] = TRUE]
            /\ exit' = [exit EXCEPT ![c] = "upgrade"]
    /\ UNCHANGED <<mode, srvVars, held, rcvd, wrote, closes, closeErr, late,
                   cliVars>>

\* r.Context() is cancelled while the handler runs.
OuterCancel(c) ==
    /\ mode = "server" /\ pc[c] \in {"check", "read", "pong", "write"}
    /\ ~ctxDone[c]
    /\ ctxDone' = [ctxDone EXCEPT ![c] = TRUE]
    /\ UNCHANGED <<mode, srvVars, pc, held, rcvd, wrote, closes, closeErr,
                   exit, late, cliVars>>

\* select { case <-ctx.Done(): return; default: }
Check(c) ==
    /\ mode = "server" /\ pc[c] = "check"
    /\ pc' = [pc EXCEPT ![c] = LoopCheck(ctxDone[c])]
    /\ exit' = [exit EXCEPT ![c] = IF LoopCheck(ctxDone[c]) = "read"
                                   THEN @ ELSE "ctx"]
    /\ UNCHANGED <<mode, srvVars, ctxDone, held, rcvd, wrote, closes,
                   closeErr, late, cliVars>>

\* A frame f arrives while the handler is blocked in conn.ReadMessage().
\* ReadMessage processes it: a ping calls the ping handler, which calls
\* conn.WriteMessage(websocket.PongMessage, ...) and is in that call from
\* now on; a pong calls the pong handler (log only, returns nil); a close
\* calls the close handler (cancel, returns nil) and ends the read with an
\* error; a data frame is returned.
RecvFrame(c, f) ==
    /\ mode = "server" /\ pc[c] = "read"
    /\ SumLen(rcvd, Conns) < MaxFrames
    /\ rcvd' = [rcvd EXCEPT ![c] = Append(@, f)]
    /\ ctxDone' = IF f.kind = "close" THEN CancelFor(c, ctxDone) ELSE ctxDone
    /\ late' = [late EXCEPT ![c].r =
                  IF ctxDone[c] /\ f.kind \in DataKinds THEN @ + 1 ELSE @]
    /\ IF f.kind = "ping"
       THEN /\ pc' = [pc EXCEPT ![c] = "pong"]
            /\ UNCHANGED <<held, exit>>
       ELSE LET out == ReadOutcome(f, TRUE)
            IN  /\ pc' = [pc EXCEPT ![c] =
                            CASE out = "return" -> "write"
                              [] out = "continue" -> "read"
                              [] OTHER -> AfterReadError]
                /\ held' = [held EXCEPT ![c] =
                              IF out = "return"
                              THEN [kind |-> f.kind, data |-> f.data] ELSE @]
                /\ exit' = [exit EXCEPT ![c] =
                              IF out = "error" THEN "read" ELSE @]
    /\ UNCHANGED <<mode, srvVars, wrote, closes, closeErr, cliVars>>

\* The WriteMessage call of the ping handler returns (ok: with nil).  The
\* handler returns the write's error to ReadMessage, which goes on reading
\* when it is nil and fails with it otherwise: log and break.
PongWrite(c, ok) ==
    /\ mode = "server" /\ pc[c] = "pong"
    /\ LET ping == rcvd[c][Len(rcvd[c])]
           out == ReadOutcome(ping, ok)
       IN  /\ wrote' = [wrote EXCEPT ![c] =
                          Append(@, WriteCall(PingHandler(ping.data), ok))]
           /\ pc' = [pc EXCEPT ![c] =
                       IF out = "continue" THEN "read" ELSE AfterReadError]
           /\ exit' = [exit EXCEPT ![c] =
                         IF out = "continue" THEN @ ELSE "read"]
    /\ UNCHANGED <<mode, srvVars, ctxDone, held, rcvd, closes, closeErr, late,
                   cliVars>>

\* conn.ReadMessage() fails on the transport: log and break.
ReadError(c) ==
    /\ mode = "server" /\ pc[c] = "read"
    /\ pc' = [pc EXCEPT ![c] = AfterReadError]
    /\ exit' = [exit EXCEPT ![c] = "read"]
    /\ UNCHANGED <<mode, srvVars, ctxDone, held, rcvd, wrote, closes,
                   closeErr, late, cliVars>>

\* conn.WriteMessage(mt, message): on success go round the loop, on
\* failure log and break.
Echo(c, ok) ==
    /\ mode = "server" /\ pc[c] = "write"
    /\ wrote' = [wrote EXCEPT ![c] =
                   Append(@, WriteCall(EchoFrame(held[c].kind, held[c].data), ok))]
    /\ held' = [held EXCEPT ![c] = NoFrame]
    /\ pc' = [pc EXCEPT ![c] = IF ok THEN "check" ELSE AfterWriteError]
    /\ exit' = [exit EXCEPT ![c] = IF ok THEN @ ELSE "write"]
    /\ late' = [late EXCEPT ![c].w = IF ctxDone[c] THEN @ + 1 ELSE @]
    /\ UNCHANGED <<mode, srvVars, ctxDone, rcvd, closes, closeErr, cliVars>>

\* ServeHTTP returns: the deferred conn.Close() runs (its error is logged),
\* then the deferred cancel().
Return(c, err) ==
    /\ mode = "server" /\ pc[c] = "defer"
    /\ closes' = [closes EXCEPT ![c] = DeferredClose(@)]
    /\ closeErr' = [closeErr EXCEPT ![c] = IF err THEN "err" ELSE "nil"]
    /\ ctxDone' = [ctxDone EXCEPT ![c] = TRUE]
    /\ pc' = [pc EXCEPT ![c] = Returned]
    /\ UNCHANGED <<mode, srvVars, held, rcvd, wrote, exit, late, cliVars>>

\* The steps the handler of connection c takes without waiting for anyone:
\* the select at the head of the loop and the deferred functions.
HandlerStep(c) ==
    \/ Check(c)
    \/ \E err \in BOOLEAN : Return(c, err)

ServerNext ==
    \/ ShutdownBegin
    \/ \E t \in 0..ShutdownTimeout : ShutdownReturn(t)
    \/ \E c \in Conns, ok \in BOOLEAN : Upgrade(c, ok)
    \/ \E c \in Conns : OuterCancel(c)
    \/ \E c \in Conns, f \in PeerFrames : RecvFrame(c, f)
    \/ \E c \in Conns, ok \in BOOLEAN : PongWrite(c, ok)
    \/ \E c \in Conns : ReadError(c)
    \/ \E c \in Conns, ok \in BOOLEAN : Echo(c, ok)
    \/ \E c \in Conns : HandlerStep(c)

(* ---------------------------------------------------------------------- *)
(* Ping.                                                                   *)
(* ---------------------------------------------------------------------- *)

\* Mutant: the probe is sent as a text message.
ProbeFrameText(sz) == [kind |-> "text", data |-> [j \in 1..sz |-> 0]]

\* make([]byte, size) sent as a binary message.
ProbeFrame(sz) == [kind |-> "binary", data |-> [j \in 1..sz |-> 0]]

RECURSIVE Sum(_)
\* for _, d := range elapseds { sum += d }
Sum(es) == IF es = <<>> THEN 0 ELSE Head(es) + Sum(Tail(es))

\* Mutant: the sum is logged, not divided by the number of samples.
AverageNoDivision(sz, es) ==
    [bytes |-> sz * Len(es), mean |-> Sum(es), count |-> Len(es)]

\* The line logged after "average:": size*len(elapseds) bytes and
\* sum/time.Duration(len(elapseds)).
Average(sz, es) ==
    [bytes |-> sz * Len(es), mean |-> Sum(es) \div Len(es), count |-> Len(es)]

\* Mutant: the average is computed whatever the number of samples.
HasSamplesAlways(es) == TRUE

\* if len(elapseds) > 0
HasSamples(es) == Len(es) > 0

\* Mutant: the select at the head of an iteration is missing.
PingCheckNever(done) == "send"

\* The select at the head of an iteration: `return nil' when ctx is done
\* (the deferred functions run next), else go on to send.
PingCheck(done) == IF done THEN "defer" ELSE "send"

\* Mutant: a failed send is handled like a failed read.
SendFailedSwallowed == [result |-> "none", pc |-> "avg"]

\* A failed WriteMessage: return the error.
SendFailed == [result |-> "err", pc |-> "defer"]

\* A failed ReadMessage: log and break, to the code after the loop.
ReadFailed == [result |-> "none", pc |-> "avg"]

\* dialer.Dial: on failure Ping returns the error (only cancel was
\* deferred); on success the deferred Close is registered and the handlers
\* are installed.
Dial(ok) ==
    /\ mode = "client" /\ cpc = "dial"
    /\ IF ok
       THEN /\ cpc' = "loop"
            /\ UNCHANGED <<result, cexit, cctxDone>>
       ELSE /\ cpc' = "done" /\ result' = "err" /\ cexit' = "dial"
            /\ cctxDone' = TRUE
    /\ UNCHANGED <<mode, srvVars, connVars, n, size, i, elapseds, crcvd,
                   cwrote, ccloses, ccloseErr, summary, clate>>

\* The context given to Ping is cancelled while Ping runs.
CallerCancel ==
    /\ mode = "client" /\ cpc \in {"loop", "send", "read", "pong", "avg"}
    /\ ~cctxDone
    /\ cctxDone' = TRUE
    /\ UNCHANGED <<mode, srvVars, connVars, n, size, cpc, i, elapseds,
                   crcvd, cwrote, ccloses, ccloseErr, cexit, result, summary,
                   clate>>

\* for i := 0; i < n; i++ { select { case <-ctx.Done(): return nil ... } }
PingLoop ==
    /\ mode = "client" /\ cpc = "loop"
    /\ IF i >= n
       THEN /\ cpc' = "avg"
            /\ cexit' = "end"
            /\ UNCHANGED result
       ELSE /\ cpc' = PingCheck(cctxDone)
            /\ cexit' = IF PingCheck(cctxDone) = "send" THEN cexit ELSE "ctx"
            /\ result' = IF PingCheck(cctxDone) = "defer" THEN "nil"
                         ELSE result
    /\ UNCHANGED <<mode, srvVars, connVars, n, size, i, cctxDone, elapseds,
                   crcvd, cwrote, ccloses, ccloseErr, summary, clate>>

\* start := time.Now(); conn.WriteMessage(websocket.BinaryMessage, ...)
Send(ok) ==
    /\ mode = "client" /\ cpc = "send"
    /\ cwrote' = Append(cwrote, WriteCall(ProbeFrame(size), ok))
    /\ clate' = [clate EXCEPT !.w = IF cctxDone THEN @ + 1 ELSE @]
    /\ IF ok
       THEN cpc' = "read" /\ UNCHANGED <<result, cexit>>
       ELSE cpc' = SendFailed.pc /\ result' = SendFailed.result
            /\ cexit' = "send"
    /\ UNCHANGED <<mode, srvVars, connVars, n, size, i, cctxDone, elapseds,
                   crcvd, ccloses, ccloseErr, summary>>

\* A frame f arrives while Ping is blocked in conn.ReadMessage(); control
\* frames are handled as in the server.  A data frame is the reply: d is
\* time.Since(start).
PingRecv(f, d) ==
    /\ mode = "client" /\ cpc = "read"
    /\ Len(crcvd) < MaxFrames
    /\ f.kind \notin DataKinds => d = 0
    /\ crcvd' = Append(crcvd, f)
    /\ cctxDone' = IF f.kind = "close" THEN CloseHandler(cctxDone)
                   ELSE cctxDone
    /\ clate' = [clate EXCEPT !.r =
                   IF cctxDone /\ f.kind \in DataKinds THEN @ + 1 ELSE @]
    /\ IF f.kind = "ping"
       THEN /\ cpc' = "pong"
            /\ UNCHANGED <<elapseds, i, result, cexit>>
       ELSE LET out == ReadOutcome(f, TRUE)
            IN  CASE out = "return" ->
                       /\ elapseds' = Append(elapseds, d)
                       /\ i' = i + 1
                       /\ cpc' = "loop"
                       /\ UNCHANGED <<result, cexit>>
                  [] out = "continue" ->
                       UNCHANGED <<elapseds, i, cpc, result, cexit>>
                  [] OTHER ->
                       /\ cpc' = ReadFailed.pc
                       /\ result' = ReadFailed.result
                       /\ cexit' = "read"
                       /\ UNCHANGED <<elapseds, i>>
    /\ UNCHANGED <<mode, srvVars, connVars, n, size, cwrote, ccloses,
                   ccloseErr, summary>>

\* The WriteMessage call of Ping's ping handler returns (ok: with nil); the
\* read goes on when it is nil and fails with the write's error otherwise.
PingPongWrite(ok) ==
    /\ mode = "client" /\ cpc = "pong"
    /\ LET ping == crcvd[Len(crcvd)]
           out == ReadOutcome(ping, ok)
       IN  /\ cwrote' = Append(cwrote, WriteCall(PingHandler(ping.data), ok))
           /\ IF out = "continue"
              THEN cpc' = "read" /\ UNCHANGED <<result, cexit>>
              ELSE /\ cpc' = ReadFailed.pc
                   /\ result' = ReadFailed.result
                   /\ cexit' = "read"
    /\ UNCHANGED <<mode, srvVars, connVars, n, size, i, cctxDone, elapseds,
                   crcvd, ccloses, ccloseErr, summary, clate>>

\* conn.ReadMessage() fails on the transport.
PingReadError ==
    /\ mode = "client" /\ cpc = "read"
    /\ cpc' = ReadFailed.pc
    /\ result' = ReadFailed.result
    /\ cexit' = "read"
    /\ UNCHANGED <<mode, srvVars, connVars, n, size, i, cctxDone, elapseds,
                   crcvd, cwrote, ccloses, ccloseErr, summary, clate>>

\* if len(elapseds) > 0 { ... log the average ... }; return nil
\* The division sum/time.Duration(len(elapseds)) panics when the divisor is
\* zero: nothing is logged, the deferred functions run and Ping does not
\* return a value.
PrintAverage ==
    /\ mode = "client" /\ cpc = "avg"
    /\ IF HasSamples(elapseds) /\ Len(elapseds) = 0
       THEN /\ result' = "panic"
            /\ UNCHANGED summary
       ELSE /\ summary' = IF HasSamples(elapseds)
                          THEN Append(summary, Average(size, elapseds))
                          ELSE summary
            /\ result' = "nil"
    /\ cpc' = "defer"
    /\ UNCHANGED <<mode, srvVars, connVars, n, size, i, cctxDone, elapseds,
                   crcvd, cwrote, ccloses, ccloseErr, cexit, clate>>

\* Ping returns: the deferred conn.Close() runs (its error is logged), then
\* the deferred cancel().
PingReturn(err) ==
    /\ mode = "client" /\ cpc = "defer"
    /\ ccloses' = DeferredClose(ccloses)
    /\ ccloseErr' = IF err THEN "err" ELSE "nil"
    /\ cctxDone' = TRUE
    /\ cpc' = Returned
    /\ UNCHANGED <<mode, srvVars, connVars, n, size, i, elapseds, crcvd,
                   cwrote, cexit, result, summary, clate>>

\* The steps Ping takes without waiting for anyone: the loop condition and
\* the select, the aggregation and the deferred functions.
PingStep ==
    \/ PingLoop
    \/ PrintAverage
    \/ \E err \in BOOLEAN : PingReturn(err)

ClientNext ==
    \/ \E ok \in BOOLEAN : Dial(ok)
    \/ CallerCancel
    \/ \E ok \in BOOLEAN : Send(ok)
    \/ \E f \in PeerFrames, d \in 0..MaxElapsed : PingRecv(f, d)
    \/ \E ok \in BOOLEAN : PingPongWrite(ok)
    \/ PingReadError
    \/ PingStep

Next == ServerNext \/ ClientNext

Spec == Init /\ [][Next]_vars

\* The process keeps taking the steps that wait for no one: the selects,
\* the aggregation and the deferred functions of a handler or of Ping, and
\* the return of Shutdown, which its deadline bounds.  Nothing makes a peer
\* send a frame, a context be cancelled, or a ReadMessage or WriteMessage
\* under way return: no deadline is set on the connection.
Fairness ==
    /\ \A c \in Conns : WF_vars(HandlerStep(c))
    /\ WF_vars(\E t \in 0..ShutdownTimeout : ShutdownReturn(t))
    /\ WF_vars(PingStep)

FairSpec == Spec /\ Fairness

(* ---------------------------------------------------------------------- *)
(* What the logs of a connection say.                                      *)
(* ---------------------------------------------------------------------- *)

\* The frame of a WriteMessage call.
FrameOf(w) == [kind |-> w.kind, data |-> w.data]

IsData(f) == f.kind \in DataKinds

\* The data frames read on a connection, and the echo writes made on it.
DataRead(c) == SelectSeq(rcvd[c], IsData)
Echoes(c) == SelectSeq(wrote[c], IsData)

\* A close frame has been received on connection c.
CloseRecv(c) == \E k \in 1..Len(rcvd[c]) : rcvd[c][k].kind = "close"

Last(q) == q[Len(q)]

(* ---------------------------------------------------------------------- *)
(* Claims.                                                                 *)
(* ---------------------------------------------------------------------- *)

\* C1: every text or binary frame the echo loop reads gets exactly one
\* WriteMessage call with the same kind and the same payload, made before
\* the next frame is read: a data frame is read only when every frame read
\* before has its reply, and each echo write is the one reply to the frame
\* read last.
EchoIdentity ==
    /\ [][\A c \in Conns :
            /\ Len(DataRead(c)') > Len(DataRead(c))
                 => Len(Echoes(c)) = Len(DataRead(c))
            /\ Len(Echoes(c)') > Len(Echoes(c))
                 => /\ Len(Echoes(c)') = Len(DataRead(c))
                    /\ Len(DataRead(c)') = Len(DataRead(c))
                    /\ Last(Echoes(c)').kind = Last(DataRead(c)).kind
                    /\ Last(Echoes(c)').data = Last(DataRead(c)).data]_vars
    /\ [](\A c \in Conns :
            pc[c] # "write" => Len(Echoes(c)) = Len(DataRead(c)))

\* C1 witness: a text frame with a payload was read and echoed, and the
\* handler is back in ReadMessage.
EchoIdentityWitness ==
    \E c \in Conns :
        /\ pc[c] = "read"
        /\ Len(DataRead(c)) = 1 /\ DataRead(c)[1].kind = "text"
        /\ Len(Echoes(c)) = 1 /\ Echoes(c)[1].ok

\* Sequence p is a prefix of sequence q.
IsPrefix(p, q) == Len(p) <= Len(q) /\ \A k \in 1..Len(p) : p[k] = q[k]

\* The frames of a sequence of WriteMessage calls.
Frames(ws) == [k \in 1..Len(ws) |-> FrameOf(ws[k])]

\* C2: the sequence of echoes written on a connection is the sequence of
\* data frames received on it, in the same order, nothing duplicated or
\* left out; while a frame is held for its echo, all but that last one.
EchoFifo ==
    \A c \in Conns :
        /\ IsPrefix(Frames(Echoes(c)), DataRead(c))
        /\ Len(DataRead(c)) - Len(Echoes(c)) = IF pc[c] = "write" THEN 1 ELSE 0

\* C2 witness: two different data frames were received back to back and
\* both echoes were delivered.
EchoFifoWitness ==
    \E c \in Conns :
        /\ Len(rcvd[c]) = 2 /\ Len(DataRead(c)) = 2
        /\ DataRead(c)[1] # DataRead(c)[2]
        /\ Len(Echoes(c)) = 2 /\ Echoes(c)[1].ok /\ Echoes(c)[2].ok

\* C3: once a close frame has been received, nothing more is read from or
\* written to the connection, Close is never called twice, and when the
\* handler has returned Close has been called exactly once.
CloseTerminates ==
    /\ [][\A c \in Conns :
            CloseRecv(c) => rcvd'[c] = rcvd[c] /\ wrote'[c] = wrote[c]]_vars
    /\ [](\A c \in Conns :
            /\ closes[c] <= 1
            /\ CloseRecv(c) => pc[c] \in {"defer", "done"}
            /\ CloseRecv(c) /\ pc[c] = "done" => closes[c] = 1)

\* C3 witness: a close frame arrived after an echoed message and the
\* handler has returned.
CloseTerminatesWitness ==
    \E c \in Conns :
        /\ CloseRecv(c) /\ pc[c] = "done" /\ closes[c] = 1
        /\ Len(Echoes(c)) = 1

\* A close frame has been received by Ping.
PingCloseRecv == \E k \in 1..Len(crcvd) : crcvd[k].kind = "close"

\* C4 as claimed: once the token of a connection is invalidated, whatever
\* invalidated it and whenever, nothing more is read or written on it.
NoIoAfterInvalidation ==
    [][/\ \A c \in Conns :
            ctxDone[c] => rcvd'[c] = rcvd[c] /\ wrote'[c] = wrote[c]
       /\ cctxDone => crcvd' = crcvd /\ cwrote' = cwrote]_vars

\* C4 as amended: an invalidation by a received close frame is followed by
\* no read and no write at all; after any other invalidation the loop
\* begins no new iteration, so that at most the iteration under way is
\* finished: at most one more data frame is returned by ReadMessage and at
\* most one more echo (server) or probe frame (client) is written.
CooperativeCancel ==
    /\ [][/\ \A c \in Conns :
               CloseRecv(c) => rcvd'[c] = rcvd[c] /\ wrote'[c] = wrote[c]
          /\ PingCloseRecv => crcvd' = crcvd /\ cwrote' = cwrote]_vars
    /\ [](/\ \A c \in Conns : late[c].r <= 1 /\ late[c].w <= 1
          /\ clate.r <= 1 /\ clate.w <= 1)

\* C4 witness: the caller cancelled Ping's context after the check of the
\* first iteration had passed; the probe frame was still sent and its reply
\* read, and Ping returned at the check of the second iteration.
CooperativeCancelWitness ==
    /\ clate.w = 1 /\ clate.r = 1
    /\ Len(elapseds) = 1 /\ n = 2
    /\ cexit = "ctx" /\ cpc = "done"

\* C5: after a successful upgrade Close is called when the handler
\* returns, whatever the exit path, and never more than once; when Close
\* fails the error is logged and the handler returns all the same.
CloseOnEveryExit ==
    \A c \in Conns :
        /\ closes[c] <= 1
        /\ pc[c] = "done"
             => /\ closes[c] = 1
                /\ closeErr[c] \in {"nil", "err"}
                /\ exit[c] \in {"ctx", "read", "write"}
        /\ pc[c] # "done" => closes[c] = 0 /\ closeErr[c] = "none"

\* C5 witness: one handler left on a write error and its Close failed,
\* another left on the cancellation of its context; each called Close once.
CloseOnEveryExitWitness ==
    \E c, d \in Conns :
        /\ pc[c] = "done" /\ exit[c] = "write" /\ closeErr[c] = "err"
        /\ pc[d] = "done" /\ exit[d] = "ctx"
        /\ closes[c] = 1 /\ closes[d] = 1

RECURSIVE Replies(_)
\* What the frames rs call for, in order: a pong with its payload for a
\* ping, an echo for a data frame, nothing for a pong or a close.
Replies(rs) ==
    IF rs = <<>> THEN <<>>
    ELSE LET f == Head(rs)
         IN  (IF f.kind = "ping" THEN <<[kind |-> "pong", data |-> f.data]>>
              ELSE IF IsData(f) THEN <<[kind |-> "echo", data |-> <<>>]>>
              ELSE <<>>) \o Replies(Tail(rs))

\* A written frame, an echo reduced to the fact that it is one.
Shape(w) ==
    IF IsData(w) THEN [kind |-> "echo", data |-> <<>>] ELSE FrameOf(w)

Front(q) == SubSeq(q, 1, Len(q) - 1)

\* C6: every ping received gets exactly one pong with the ping's payload,
\* written before the echo of any data frame that arrives after the ping:
\* the pongs and echoes written are, in order, what the pings and data
\* frames received call for (less the reply to the frame received last
\* while its WriteMessage call is under way).
PongContract ==
    \A c \in Conns :
        [k \in 1..Len(wrote[c]) |-> Shape(wrote[c][k])]
            = IF pc[c] \in {"write", "pong"} THEN Front(Replies(rcvd[c]))
              ELSE Replies(rcvd[c])

\* C6 witness: a ping and then a data frame were received: the pong with
\* the ping's payload and then the echo were written, in that order.
PongContractWitness ==
    \E c \in Conns :
        /\ Len(rcvd[c]) = 2
        /\ rcvd[c][1].kind = "ping" /\ IsData(rcvd[c][2])
        /\ Len(wrote[c]) = 2
        /\ wrote[c][1] = [kind |-> "pong", data |-> rcvd[c][1].data, ok |-> TRUE]
        /\ IsData(wrote[c][2]) /\ wrote[c][2].ok

\* C7 as claimed: a received close frame invalidates the token and is
\* acknowledged: by the time the connection is torn down a close frame has
\* been written to the peer.
CloseAcknowledged ==
    \A c \in Conns :
        CloseRecv(c)
          => /\ ctxDone[c]
             /\ pc[c] = "done"
                  => \E k \in 1..Len(wrote[c]) : wrote[c][k].kind = "close"

\* C8 as claimed: a run of Ping whose token was invalidated after k < n
\* iterations, by a close frame or by the caller, returns nil and has
\* logged the average of exactly the k samples (nothing for k = 0).
CancelledRunReports ==
    (/\ cpc = "done"
     /\ Len(elapseds) < n
     /\ cexit = "ctx" \/ PingCloseRecv)
      => /\ result = "nil"
         /\ summary = IF Len(elapseds) = 0 THEN <<>>
                      ELSE <<Average(size, elapseds)>>

\* C9: a failed send makes Ping return an error at once, without a
\* summary; a failed read ends the loop and Ping returns nil after logging
\* the average of the samples it has, if any.
SendReadAsymmetry ==
    cpc \in {"defer", "done"}
      => /\ cexit = "send"
              => /\ result = "err"
                 /\ summary = <<>>
                 /\ ~Last(cwrote).ok /\ Last(cwrote).kind = "binary"
         /\ cexit = "read"
              => /\ result = "nil"
                 /\ summary = IF Len(elapseds) = 0 THEN <<>>
                              ELSE <<Average(size, elapseds)>>

\* C9 witness: the second send failed after one sample had been taken, and
\* Ping has returned.
SendReadAsymmetryWitness ==
    cpc = "done" /\ cexit = "send" /\ Len(elapseds) = 1 /\ result = "err"

\* C10 as claimed: once Shutdown has returned, every handler in flight
\* eventually has returned with its connection closed, also when its peer
\* sends nothing.  (Behaviours in which the peers have sent all the frames
\* the model gives them are left out: a behaviour that violates this ends
\* with a handler whose peer could still send and does not.)
ShutdownTearsDown ==
    (srv = "stopped")
      ~> (\/ \A c \in Conns : pc[c] \in {"idle", "failed", "done"}
          \/ SumLen(rcvd, Conns) >= MaxFrames)

\* C11 as claimed: a failed pong write in the ping handler does not fail
\* the read during which the ping was handled: after it the handler is
\* still in ReadMessage.
PongFailureNotTerminal ==
    [][\A c \in Conns :
         (/\ Len(wrote'[c]) > Len(wrote[c])
          /\ Last(wrote'[c]).kind = "pong"
          /\ ~Last(wrote'[c]).ok)
           => pc'[c] = "read"]_vars

\* The probe frames Ping has sent and the replies it has read.
Probes == SelectSeq(cwrote, IsData)
PingReplies == SelectSeq(crcvd, IsData)

\* What C12 says of every run of Ping: at most n probe frames are sent,
\* each a binary message of exactly `size' zero bytes, and a probe is sent
\* only when every probe before it has had its reply read.
Sequential ==
    /\ Len(Probes) <= n
    /\ \A k \in 1..Len(Probes) :
         /\ Probes[k].kind = "binary"
         /\ Len(Probes[k].data) = size
         /\ \A j \in 1..size : Probes[k].data[j] = 0
    /\ Len(PingReplies) <= Len(Probes)
    /\ Len(Probes) <= Len(PingReplies) + 1
    /\ cpc = "send" => Len(Probes) = Len(PingReplies)
    /\ Len(elapseds) = Len(PingReplies) /\ i = Len(elapseds)

\* Ping has left its loop because i reached n: no send and no read failed
\* and no cancellation was seen.
CleanRun == cpc \in {"defer", "done"} /\ cexit = "end"

\* C12 as claimed: round trips are strictly sequential, and a run without
\* failure or cancellation sends n frames, reads n replies, records n
\* samples, logs one summary over n samples and returns nil.
SequentialRoundTrips ==
    /\ Sequential
    /\ CleanRun
         => /\ Len(Probes) = n /\ Len(PingReplies) = n /\ Len(elapseds) = n
            /\ result = "nil"
            /\ Len(summary) = 1 /\ summary[1].count = n

\* C12 as amended: the same, the summary being logged when n >= 1 and no
\* summary being logged when n = 0.
SequentialRoundTripsN ==
    /\ Sequential
    /\ CleanRun
         => /\ Len(Probes) = n /\ Len(PingReplies) = n /\ Len(elapseds) = n
            /\ \A k \in 1..Len(Probes) : Probes[k].ok
            /\ result = "nil"
            /\ n >= 1 => Len(summary) = 1 /\ summary[1].count = n
            /\ n = 0 => summary = <<>>

\* C12 witness: Ping with n = 2 and size = 2 ran to its end: two probes of
\* two zero bytes, two replies, one summary over two samples.
SequentialRoundTripsWitness ==
    /\ CleanRun /\ cpc = "done" /\ n = 2 /\ size = 2
    /\ Len(Probes) = 2 /\ Probes[2].data = <<0, 0>>
    /\ Len(summary) = 1 /\ summary[1].count = 2

\* C13: a summary logged after samples d1..dk reports the duration
\* (d1 + ... + dk) / k, the quotient of the integer division, and
\* size * k bytes.
MeanAndBytes ==
    \A k \in 1..Len(summary) :
        LET line == summary[k]
        IN  /\ line.count = Len(elapseds) /\ line.count >= 1
            /\ line.mean * line.count <= Sum(elapseds)
            /\ Sum(elapseds) < (line.mean + 1) * line.count
            /\ line.bytes = size * line.count

\* C13 witness: two samples of 1 and 2 ticks, payloads of 2 bytes: the
\* summary reports 1 tick (3 / 2 rounded down) and 4 bytes.
MeanAndBytesWitness ==
    /\ Len(summary) = 1 /\ Len(elapseds) = 2 /\ Sum(elapseds) = 3
    /\ summary[1].mean = 1 /\ summary[1].bytes = 4 /\ size = 2

\* C14: when the upgrade fails the handler returns without a connection:
\* nothing is read or written, Close is not called, the handler never runs
\* again for that request, and the server goes on upgrading the requests
\* that follow.
UpgradeFailureIsLocal ==
    /\ [](\A c \in Conns :
            exit[c] = "upgrade"
              => /\ pc[c] = "failed"
                 /\ rcvd[c] = <<>> /\ wrote[c] = <<>> /\ held[c] = NoFrame
                 /\ closes[c] = 0 /\ closeErr[c] = "none"
                 /\ \A d \in Conns :
                      (/\ pc[d] = "idle"
                       /\ \A e \in Conns : e < d => pc[e] # "idle")
                        => ENABLED Upgrade(d, TRUE))
    /\ [][\A c \in Conns :
            /\ pc[c] = "failed" => pc'[c] = "failed"
            /\ (pc[c] = "idle" /\ pc'[c] = "failed") => srv' = srv]_vars

\* C14 witness: the upgrade of the first request failed; the second
\* request was upgraded afterwards and had a message echoed.
UpgradeFailureIsLocalWitness ==
    /\ pc[1] = "failed" /\ exit[1] = "upgrade"
    /\ pc[2] = "read" /\ Len(Echoes(2)) = 1 /\ Echoes(2)[1].ok

\* C15: a failed dial makes Ping return an error at once, with nothing
\* sent and Close not called; after a successful dial Close is called
\* exactly once when Ping returns, by whatever path, and an error of Close
\* is logged and does not change what Ping returns.
PingCloseOnEveryExit ==
    /\ ccloses <= 1
    /\ cexit = "dial"
         => /\ cpc = "done" /\ result = "err"
            /\ cwrote = <<>> /\ crcvd = <<>>
            /\ ccloses = 0 /\ ccloseErr = "none"
    /\ cpc = "done" /\ cexit # "dial"
         => /\ ccloses = 1 /\ ccloseErr \in {"nil", "err"}
            /\ cexit \in {"end", "ctx", "send", "read"}
            /\ result = IF cexit = "send" THEN "err" ELSE "nil"
    /\ cpc # "done" => ccloses = 0 /\ ccloseErr = "none"

\* C15 witness: Ping left its loop on a failed read; Close was called once
\* and failed, and Ping returned nil.
PingCloseOnEveryExitWitness ==
    /\ cpc = "done" /\ cexit = "read" /\ ccloses = 1
    /\ ccloseErr = "err" /\ result = "nil"

\* All there is of connection c in the server.
ConnState(c) ==
    <<pc[c], ctxDone[c], held[c], rcvd[c], wrote[c], closes[c], closeErr[c],
      exit[c], late[c]>>

\* C16: a step changes the state of at most one connection, and a step of
\* a connection's handler (a frame read, an echo, a pong, a close frame, a
\* failure, a return) leaves the listener as it was: no other connection's
\* token, position, frames or Close count changes, and a handler that has
\* left its loop on a failure has taken no other handler with it.
ConnectionsIndependent ==
    [][/\ Cardinality({c \in Conns : ConnState(c)' # ConnState(c)}) <= 1
       /\ (\E c \in Conns : ConnState(c)' # ConnState(c) /\ pc[c] # "idle")
            => UNCHANGED srvVars]_vars

\* C16 witness: the first connection received a close frame and its handler
\* has returned; the second has had a message echoed and is reading on.
ConnectionsIndependentWitness ==
    /\ CloseRecv(1) /\ pc[1] = "done" /\ ctxDone[1]
    /\ pc[2] = "read" /\ ~ctxDone[2] /\ closes[2] = 0
    /\ Len(Echoes(2)) = 1 /\ Echoes(2)[1].ok

\* C17: the token is looked at only in the check that begins an iteration.
\* A cancellation from outside changes neither the position of the loop
\* nor what was read and written; the read or write under way ends as it
\* would have (a data frame read is still echoed, a reply still gives a
\* sample); the loop is left because of the token only from the check, and
\* a check made with the token invalidated always leaves it.
CheckedAtIterationStart ==
    [][/\ \A c \in Conns :
            /\ (~ctxDone[c] /\ ctxDone'[c] /\ rcvd'[c] = rcvd[c]
                  /\ pc[c] \in {"check", "read", "pong", "write"})
                 => pc'[c] = pc[c] /\ wrote'[c] = wrote[c]
            /\ (pc[c] = "pong" /\ pc'[c] # "pong")
                 => /\ Len(wrote'[c]) = Len(wrote[c]) + 1
                    /\ Last(wrote'[c]).kind = "pong"
            /\ (pc[c] = "read" /\ pc'[c] = "write") => IsData(held'[c])
            /\ (pc[c] = "write" /\ pc'[c] # "write")
                 => /\ Len(wrote'[c]) = Len(wrote[c]) + 1
                    /\ FrameOf(Last(wrote'[c])) = held[c]
            /\ (exit[c] # "ctx" /\ exit'[c] = "ctx")
                 => pc[c] = "check" /\ ctxDone[c]
            /\ (pc[c] = "check" /\ ctxDone[c] /\ pc'[c] # "check")
                 => pc'[c] = "defer" /\ exit'[c] = "ctx"
       /\ (~cctxDone /\ cctxDone' /\ crcvd' = crcvd
             /\ cpc \in {"loop", "send", "read", "pong"})
            => cpc' = cpc /\ cwrote' = cwrote
       /\ (cpc = "send" /\ cpc' # "send")
            => Len(cwrote') = Len(cwrote) + 1
       /\ (cexit # "ctx" /\ cexit' = "ctx") => cpc = "loop" /\ cctxDone
       /\ (cpc = "loop" /\ cctxDone /\ i < n /\ cpc' # "loop")
            => cpc' = "defer" /\ cexit' = "ctx" /\ cwrote' = cwrote]_vars

\* C17 witness: Ping's context was cancelled while the read of the first
\* reply was under way; the reply was still read and gave a sample, and
\* Ping left at the check of the second iteration without sending again.
CheckedAtIterationStartWitness ==
    /\ n = 2 /\ clate.w = 0 /\ clate.r = 1
    /\ Len(elapseds) = 1 /\ Len(Probes) = 1
    /\ cexit = "ctx" /\ cpc = "done"

\* C18: the aggregation never fails: Ping never panics on the division,
\* at most one summary is logged in a run, and none over zero samples.
AggregationSafe ==
    /\ result # "panic"
    /\ Len(summary) <= 1
    /\ \A k \in 1..Len(summary) : summary[k].count >= 1
    /\ cpc \in {"defer", "done"} /\ cexit \in {"end", "read"}
         => (summary = <<>>) = (Len(elapseds) = 0)

\* C18 witness: Ping with n = 0 has returned nil and logged no summary.
AggregationSafeWitness ==
    cpc = "done" /\ n = 0 /\ cexit = "end" /\ summary = <<>> /\ result = "nil"

\* The number of frames of kind k in sequence q.
Count(q, k) == Cardinality({j \in 1..Len(q) : q[j].kind = k})

\* C19: the handler holds at most one frame read and not echoed and sends
\* nothing of its own: the echoes written are as many as the data frames
\* read or one less, the pongs written are no more than the pings received,
\* and nothing but echoes and pongs is written.
NoTrafficOfItsOwn ==
    \A c \in Conns :
        /\ Len(Echoes(c)) <= Len(DataRead(c))
        /\ Len(DataRead(c)) <= Len(Echoes(c)) + 1
        /\ Count(wrote[c], "pong") <= Count(rcvd[c], "ping")
        /\ \A k \in 1..Len(wrote[c]) :
             wrote[c][k].kind \in DataKinds \cup {"pong"}
        /\ Len(wrote[c]) = Len(Echoes(c)) + Count(wrote[c], "pong")

\* C19 witness: one data frame was echoed and a second one is read and
\* held for its echo.
NoTrafficOfItsOwnWitness ==
    \E c \in Conns :
        /\ pc[c] = "write" /\ Len(DataRead(c)) = 2 /\ Len(Echoes(c)) = 1

\* C20: once Close has been called on a connection, by the server's
\* handler or by Ping, nothing is read from it or written to it any more
\* and Close is not called again.
NothingAfterClose ==
    [][/\ \A c \in Conns :
            closes[c] >= 1
              => /\ rcvd'[c] = rcvd[c] /\ wrote'[c] = wrote[c]
                 /\ closes'[c] = closes[c] /\ pc'[c] = pc[c]
       /\ ccloses >= 1
            => /\ crcvd' = crcvd /\ cwrote' = cwrote
               /\ ccloses' = ccloses /\ cpc' = cpc]_vars

\* C20 witness: a handler that had echoed a message and answered a ping has
\* called Close and returned.
NothingAfterCloseWitness ==
    \E c \in Conns :
        /\ closes[c] = 1 /\ pc[c] = "done"
        /\ Len(Echoes(c)) = 1 /\ Count(wrote[c], "pong") = 1

====
